---- MODULE Spec2Model ----
(***************************************************************************)
(* Model of the type generated by the bitflags! macro of                   *)
(* src/libstd/bitflags.rs: a struct wrapping one unsigned integer `bits`,  *)
(* one static per declared flag, and the set operations on it.  A state is *)
(* a declaration (the flag statics) together with two local values e1, e2  *)
(* of the generated type, as in the tests of the file, and a record of the *)
(* last call made on them.                                                 *)
(***************************************************************************)
EXTENDS Integers, Naturals, FiniteSets, Sequences, TLC

\* Width in bits of the unsigned storage type $T of the declaration.
Width == 8
\* Largest literal a declaration gives to FlagA, FlagB or FlagC.
MaxLiteral == 4

VARIABLES flags, e1, e2, op, arg, self, other, ret

vars == <<flags, e1, e2, op, arg, self, other, ret>>

RECURSIVE Pow2(_)
Pow2(n) == IF n = 0 THEN 1 ELSE 2 * Pow2(n - 1)

\* Largest value of $T: all Width bits set.
MaxT == Pow2(Width) - 1

\* x | y on $T
RECURSIVE BitOrT(_, _)
BitOrT(x, y) ==
    IF x = 0 THEN y
    ELSE IF y = 0 THEN x
    ELSE (IF x % 2 = 1 \/ y % 2 = 1 THEN 1 ELSE 0)
         + 2 * BitOrT(x \div 2, y \div 2)

\* x & y on $T
RECURSIVE BitAndT(_, _)
BitAndT(x, y) ==
    IF x = 0 \/ y = 0 THEN 0
    ELSE (IF x % 2 = 1 /\ y % 2 = 1 THEN 1 ELSE 0)
         + 2 * BitAndT(x \div 2, y \div 2)

\* x ^ y on $T
RECURSIVE BitXorT(_, _)
BitXorT(x, y) ==
    IF x = 0 THEN y
    ELSE IF y = 0 THEN x
    ELSE (IF x % 2 # y % 2 THEN 1 ELSE 0)
         + 2 * BitXorT(x \div 2, y \div 2)

\* !x on $T: every one of the Width bits flipped
NotT(x) == MaxT - x

\* pub struct $BitFlags { bits: $T }
BitFlags(n) == [bits |-> n]

\* #[deriving(Eq)]: two values are equal iff their fields are
eq(a, b) == a.bits = b.bits

empty == BitFlags(0)

\* bits() that returns only the lowest bit of the field
bits_low(s) == s.bits % 2

bits(s) == s.bits

is_empty(s) == eq(s, empty)

\* bitor with the body of the difference pasted in
bitor_pasted(s, o) == BitFlags(BitAndT(s.bits, NotT(o.bits)))

bitor(s, o) == BitFlags(BitOrT(s.bits, o.bits))

bitand(s, o) == BitFlags(BitAndT(s.bits, o.bits))

\* sub that flips the bits of other in self instead of clearing them
sub_xor(s, o) == BitFlags(BitXorT(s.bits, o.bits))

\* sub that joins the complement instead of masking with it
sub_or_not(s, o) == BitFlags(BitOrT(s.bits, NotT(o.bits)))

sub(s, o) == BitFlags(BitAndT(s.bits, NotT(o.bits)))

\* intersects that tests the union instead of the intersection
intersects_union(s, o) == ~is_empty(bitor(s, o))

\* intersects with the test of contains
intersects_as_contains(s, o) == eq(bitand(s, o), o)

intersects(s, o) == ~is_empty(bitand(s, o))

\* contains with the test of intersects: any common flag is enough
contains_any(s, o) == ~is_empty(bitand(s, o))

contains(s, o) == eq(bitand(s, o), o)

\* insert that assigns instead of or-assigning
insert_assign(s, o) == [s EXCEPT !.bits = o.bits]

\* the receiver after self.bits |= other.bits
insert(s, o) == [s EXCEPT !.bits = BitOrT(@, o.bits)]

\* remove that toggles the bits of other
remove_xor(s, o) == [s EXCEPT !.bits = BitXorT(@, o.bits)]

\* the receiver after self.bits &= !other.bits
remove(s, o) == [s EXCEPT !.bits = BitAndT(@, NotT(o.bits))]

\* The statics of a declaration with three literal flags and the combo flag
\* FlagABC = FlagA.bits | FlagB.bits | FlagC.bits.
Declare(a, b, c) ==
    [FlagA   |-> BitFlags(a),
     FlagB   |-> BitFlags(b),
     FlagC   |-> BitFlags(c),
     FlagABC |-> BitFlags(BitOrT(BitOrT(a, b), c))]

FlagNames == {"FlagA", "FlagB", "FlagC", "FlagABC"}
\* What the argument of a call can name: the local e2, a flag static, or a
\* call of empty().
Sources == {"e2", "empty"} \cup FlagNames

Val(s) ==
    CASE s = "e1" -> e1
      [] s = "e2" -> e2
      [] s = "empty" -> empty
      [] OTHER -> flags[s]

NoRet == "none"
\* arg when the last call was not insert or remove
NoArg == "none"

Init ==
    /\ \E a \in 0..MaxLiteral, b \in 0..MaxLiteral, c \in 0..MaxLiteral :
          flags = Declare(a, b, c)
    /\ e1 = empty
    /\ e2 = empty
    /\ op = "init"
    /\ arg = NoArg
    /\ self = empty
    /\ other = empty
    /\ ret = NoRet

\* let e1 = s;  (a flag static, empty(), or e2.clone())
Let1(s) ==
    /\ e1' = Val(s)
    /\ op' = "let" /\ arg' = NoArg
    /\ self' = e1 /\ other' = Val(s) /\ ret' = NoRet
    /\ UNCHANGED <<flags, e2>>

\* let e2 = s;  (a flag static, empty(), or e1.clone())
Let2(s) ==
    /\ e2' = Val(s)
    /\ op' = "let" /\ arg' = NoArg
    /\ self' = e2 /\ other' = Val(s) /\ ret' = NoRet
    /\ UNCHANGED <<flags, e1>>

\* e1 = e1 | t;
Union(t) ==
    /\ e1' = bitor(e1, Val(t))
    /\ op' = "bitor" /\ arg' = NoArg
    /\ self' = e1 /\ other' = Val(t) /\ ret' = NoRet
    /\ UNCHANGED <<flags, e2>>

\* e1 = e1 & t;
Intersection(t) ==
    /\ e1' = bitand(e1, Val(t))
    /\ op' = "bitand" /\ arg' = NoArg
    /\ self' = e1 /\ other' = Val(t) /\ ret' = NoRet
    /\ UNCHANGED <<flags, e2>>

\* e1 = e1 - t;
Difference(t) ==
    /\ e1' = sub(e1, Val(t))
    /\ op' = "sub" /\ arg' = NoArg
    /\ self' = e1 /\ other' = Val(t) /\ ret' = NoRet
    /\ UNCHANGED <<flags, e2>>

\* e1.insert(t);
Insert(t) ==
    /\ e1' = insert(e1, Val(t))
    /\ op' = "insert" /\ arg' = t
    /\ self' = e1 /\ other' = Val(t) /\ ret' = NoRet
    /\ UNCHANGED <<flags, e2>>

\* e1.remove(t);
Remove(t) ==
    /\ e1' = remove(e1, Val(t))
    /\ op' = "remove" /\ arg' = t
    /\ self' = e1 /\ other' = Val(t) /\ ret' = NoRet
    /\ UNCHANGED <<flags, e2>>

\* e1.intersects(t)
Intersects(t) ==
    /\ ret' = intersects(e1, Val(t))
    /\ op' = "intersects" /\ arg' = NoArg
    /\ self' = e1 /\ other' = Val(t)
    /\ UNCHANGED <<flags, e1, e2>>

\* e1.contains(t)
Contains(t) ==
    /\ ret' = contains(e1, Val(t))
    /\ op' = "contains" /\ arg' = NoArg
    /\ self' = e1 /\ other' = Val(t)
    /\ UNCHANGED <<flags, e1, e2>>

\* e1.is_empty()
IsEmpty ==
    /\ ret' = is_empty(e1)
    /\ op' = "is_empty" /\ arg' = NoArg
    /\ self' = e1 /\ other' = empty
    /\ UNCHANGED <<flags, e1, e2>>

\* e1.bits()
Bits ==
    /\ ret' = bits(e1)
    /\ op' = "bits" /\ arg' = NoArg
    /\ self' = e1 /\ other' = empty
    /\ UNCHANGED <<flags, e1, e2>>

\* let e1 = $BitFlags { bits: s.bits() };  the struct literal, which only
\* the module that invoked the macro can write (the field is private).
FromLiteral(s) ==
    /\ e1' = BitFlags(bits(Val(s)))
    /\ op' = "literal" /\ arg' = NoArg
    /\ self' = Val(s) /\ other' = empty /\ ret' = bits(Val(s))
    /\ UNCHANGED <<flags, e2>>

\* let n = s.bits(); let e1 = $BitFlags::empty();  the only public
\* function of the type that makes a value takes no argument, so n is
\* dropped.
FromPublic(s) ==
    /\ e1' = empty
    /\ op' = "public" /\ arg' = NoArg
    /\ self' = Val(s) /\ other' = empty /\ ret' = bits(Val(s))
    /\ UNCHANGED <<flags, e2>>

Next ==
    \/ \E s \in FlagNames \cup {"empty", "e2"} : Let1(s)
    \/ \E s \in FlagNames \cup {"empty", "e1"} : Let2(s)
    \/ \E t \in Sources : Union(t)
    \/ \E t \in Sources : Intersection(t)
    \/ \E t \in Sources : Difference(t)
    \/ \E t \in Sources : Insert(t)
    \/ \E t \in Sources : Remove(t)
    \/ \E t \in Sources : Intersects(t)
    \/ \E t \in Sources : Contains(t)
    \/ IsEmpty
    \/ Bits
    \/ \E s \in FlagNames : FromLiteral(s)
    \/ \E s \in FlagNames : FromPublic(s)

Spec == Init /\ [][Next]_vars

TypeOK ==
    /\ e1.bits \in 0..MaxT /\ e2.bits \in 0..MaxT
    /\ self.bits \in 0..MaxT /\ other.bits \in 0..MaxT

FlagVals == {flags[f] : f \in FlagNames}
\* Every value the state holds or names.
Vals == {e1, e2, self, other, empty} \cup FlagVals
\* The union of all declared flags.
AllDeclared == bitor(bitor(flags.FlagA, flags.FlagB), bitor(flags.FlagC, flags.FlagABC))
disjoint(a, b) == BitAndT(a.bits, b.bits) = 0
AC == bitor(flags.FlagA, flags.FlagC)
BC == bitor(flags.FlagB, flags.FlagC)
IsOperatorCase == op = "sub" /\ self = AC /\ other = BC

\* C1 (as stated): whatever the bit values of the declared flags A, B, C,
\* the difference (A|C) - (B|C) equals A.
C1_Original == IsOperatorCase => eq(e1, flags.FlagA)

\* C1 (amended): (A|C) - (B|C) equals A exactly when A shares no bit with
\* B or C; in particular it equals A whenever A is disjoint from B|C.
C1_Amended == IsOperatorCase => (eq(e1, flags.FlagA) <=> disjoint(flags.FlagA, BC))

C1_Witness ==
    /\ IsOperatorCase
    /\ disjoint(flags.FlagA, BC)
    /\ ~is_empty(flags.FlagA) /\ ~is_empty(flags.FlagB) /\ ~is_empty(flags.FlagC)
    /\ flags.FlagB # flags.FlagC
    /\ eq(e1, flags.FlagA)

IsOverlapCase ==
    /\ op = "intersects"
    /\ \E X \in FlagNames, Y \in FlagNames :
          self = flags[X] /\ other = bitor(flags[X], flags[Y])

\* C2 (as stated): for any two declared flags A and B, A.intersects(A|B)
\* returns true.
C2_Original == IsOverlapCase => ret = TRUE

\* C2 (amended): for any two declared flags A and B, A.intersects(A|B)
\* returns true exactly when A has at least one bit set (A.bits() != 0).
C2_Amended == IsOverlapCase => (ret = TRUE <=> ~is_empty(self))

C2_Witness ==
    /\ op = "intersects" /\ ret = TRUE
    /\ self = flags.FlagA /\ other = bitor(flags.FlagA, flags.FlagB)
    /\ ~is_empty(flags.FlagB) /\ other # self

\* C3 (as stated): a value re-constructed from X.bits() through a public
\* constructor of the generated type is equal to the declared flag X.
C3_Original == op = "public" => eq(e1, self)

\* C3 (amended): the struct literal $BitFlags { bits: X.bits() }, which only
\* the module that invoked the macro can write, yields a value equal to X
\* whose bits() is X.bits(); the one public constructor, empty(), yields a
\* value equal to X only when X.bits() is 0.
C3_Amended ==
    /\ op = "literal" => eq(e1, self) /\ bits(e1) = ret /\ ret = self.bits
    /\ op = "public" => (eq(e1, self) <=> self.bits = 0)

C3_Witness ==
    /\ op = "literal" /\ self = flags.FlagABC
    /\ self.bits > 1 /\ eq(e1, self)

\* C5: after s.insert(o) the receiver s equals (old s) | o as computed by
\* bitor, and o is unchanged.
C5_InsertIsUnion ==
    op = "insert" => eq(e1, bitor(self, other)) /\ eq(Val(arg), other)

C5_Witness ==
    /\ op = "insert" /\ arg = "e2"
    /\ ~contains(self, other) /\ ~contains(other, self)
    /\ e1 # self /\ e1 # other

\* C6: after s.remove(o) the receiver s equals (old s) - o as computed by
\* sub; when o shares no bit with s, remove leaves s unchanged.
C6_RemoveIsDifference ==
    op = "remove" =>
        /\ eq(e1, sub(self, other))
        /\ ~intersects(self, other) => eq(e1, self)
        /\ eq(Val(arg), other)

C6_Witness ==
    /\ op = "remove" /\ intersects(self, other)
    /\ ~contains(self, other) /\ ~contains(other, self)
    /\ ~is_empty(e1) /\ e1 # self

\* C7: contains is reflexive (also on empty()) and transitive on the values
\* of the flag type: after any call of contains, it relates every value in
\* scope to itself, and every chain a, b, c of values in scope closes.
C7_ContainsPreorder ==
    op = "contains" =>
        /\ self = other => ret = TRUE
        /\ contains(empty, empty)
        /\ \A a \in Vals : contains(a, a)
        /\ \A a \in Vals, b \in Vals :
              contains(a, b) => \A c \in Vals : contains(b, c) => contains(a, c)

C7_Witness ==
    /\ op = "contains" /\ ret = TRUE /\ self # other /\ ~is_empty(other)
    /\ \E c \in Vals : c # other /\ ~is_empty(c) /\ contains(other, c)

\* C8: empty().intersects(x) is false for every value x, empty() and the
\* union of all declared flags included.
C8_EmptyIntersectsNothing ==
    /\ \A x \in Vals \cup {AllDeclared} : ~intersects(empty, x)
    /\ op = "intersects" /\ self = empty => ret = FALSE

C8_Witness ==
    /\ op = "intersects" /\ self = empty /\ ret = FALSE
    /\ other = AllDeclared /\ ~is_empty(other)

\* C9: union is commutative and associative and has empty() as identity:
\* after any use of |, the three laws hold of every value in scope.
C9_UnionLaws ==
    op = "bitor" =>
        /\ \A a \in Vals, b \in Vals : eq(bitor(a, b), bitor(b, a))
        /\ \A a \in Vals, b \in Vals, c \in Vals :
              eq(bitor(bitor(a, b), c), bitor(a, bitor(b, c)))
        /\ \A a \in Vals : eq(bitor(a, empty), a) /\ eq(bitor(empty, a), a)
        /\ eq(e1, bitor(self, other)) /\ eq(e1, bitor(other, self))

C9_Witness ==
    /\ op = "bitor" /\ e1 # self /\ e1 # other
    /\ ~is_empty(self) /\ ~is_empty(other)
    /\ e1 = bitor(other, self)

\* C10: every value built from empty() and the flag statics by union,
\* intersection, difference, insert and remove has only bits that are set
\* in the union of all declared flags.
C10_DeclaredBitsOnly ==
    \A v \in {e1, e2} : BitAndT(v.bits, NotT(AllDeclared.bits)) = 0

C10_Witness ==
    /\ op \in {"sub", "remove"}
    /\ ~is_empty(other) /\ ~is_empty(e1) /\ e1 # self
====
